---- MODULE Spec2Model ----
(***************************************************************************)
(* Model of the AI integration layer: the model registry (AIService), the  *)
(* request router (AIServiceHandler) and the command parser (AICommands).  *)
(* Strings are sequences of one-character strings, so that containment,    *)
(* trimming, splitting and lower-casing are computed, not assumed.         *)
(***************************************************************************)
EXTENDS Integers, Sequences, FiniteSets, TLC

VARIABLES
    models,            \* AIService.models : HashMap<String, AIModelConfig>
    default_provider,  \* AIService.default_provider
    call,              \* the most recent call on the service/handler, with its arguments and return value
    input,             \* the text handed to AICommands::parse_input
    parsed,            \* Option<ParsedCommand>: what parse_input returned for input
    history,           \* AIChatPanel.history : Vec<ChatMessage>
    available_models,  \* AIChatPanel.available_models : Vec<String>
    selected_model,    \* AIChatPanel.selected_model : Option<String>
    hash_order,        \* the order in which the panel's two HashMaps yield their entries
    sent               \* the texts passed to send_message so far, in call order

chatVars == <<history, available_models, selected_model, hash_order, sent>>

vars == <<models, default_provider, call, input, parsed, chatVars>>

----------------------------------------------------------------------------
(* Option<T> *)

None == <<>>

Some(x) == <<x>>

----------------------------------------------------------------------------
(* ai_service.rs: data model *)

AIProvider == {"OpenAI", "Anthropic", "Local"}

AICapability == {"Chat", "CodeGeneration", "Debugging"}

gpt_3_5_turbo == <<"g", "p", "t", "-", "3", ".", "5", "-", "t", "u", "r", "b", "o">>

claude_2 == <<"c", "l", "a", "u", "d", "e", "-", "2">>

test_model == <<"t", "e", "s", "t", "-", "m", "o", "d", "e", "l">>

AIModelConfig(name, provider, capabilities) ==
    [name |-> name, provider |-> provider, capabilities |-> capabilities]

\* Model names, providers and capability lists the callers pass in.
ModelNames == {gpt_3_5_turbo, claude_2, test_model}

ProviderArgs == {"Local"}

CapabilityLists == {<<>>, <<"Debugging">>, <<"Chat", "CodeGeneration">>}

ConfigArgs ==
    {AIModelConfig(n, p, cs) : n \in ModelNames, p \in ProviderArgs, cs \in CapabilityLists}

\* HashMap::insert: the entry under key k becomes v, every other entry stays.
insert(map, k, v) ==
    [x \in DOMAIN map \cup {k} |-> IF x = k THEN v ELSE map[x]]

\* AIService::new
AIService_new ==
    insert(insert(<<>>, gpt_3_5_turbo,
                  AIModelConfig(gpt_3_5_turbo, "OpenAI", <<"Chat", "CodeGeneration">>)),
           claude_2,
           AIModelConfig(claude_2, "Anthropic", <<"Chat", "CodeGeneration">>))

\* The closure passed to find:
\*   config.capabilities.iter().any(|cap| discriminant(cap) == discriminant(&capability))
\* Variant: only the first capability of the list is compared.
supports_first_only(config, capability) ==
    Len(config.capabilities) > 0 /\ config.capabilities[1] = capability

\* Variant: models of the Local provider are passed over.
supports_remote_only(config, capability) ==
    /\ config.provider # "Local"
    /\ \E i \in 1..Len(config.capabilities) : config.capabilities[i] = capability

\* The closure as written: any capability of the list matches.
supports(config, capability) ==
    \E i \in 1..Len(config.capabilities) : config.capabilities[i] = capability

\* HashMap::values yields the entries in an order the map chooses: any
\* enumeration of the keys without repetition.
KeyOrders(map) ==
    {o \in [1..Cardinality(DOMAIN map) -> DOMAIN map] :
        \A i, j \in DOMAIN o : o[i] = o[j] => i = j}

values(map, order) == [i \in DOMAIN order |-> map[order[i]]]

\* Iterator::find with the capability closure: the first element that matches.
\* Variant: falls back to the last element when nothing matches.
RECURSIVE find_or_last(_, _)
find_or_last(vals, capability) ==
    IF vals = <<>> THEN None
    ELSE IF supports(Head(vals), capability) \/ Len(vals) = 1 THEN Some(Head(vals))
    ELSE find_or_last(Tail(vals), capability)

RECURSIVE find(_, _)
find(vals, capability) ==
    IF vals = <<>> THEN None
    ELSE IF supports(Head(vals), capability) THEN Some(Head(vals))
    ELSE find(Tail(vals), capability)

\* self.models.values().find(..): what the lookup can return, over the orders
\* in which the map may yield its entries.
find_results(map, capability) ==
    {find(values(map, order), capability) : order \in KeyOrders(map)}

----------------------------------------------------------------------------
(* ai_service_handler.rs: response synthesis *)

ResponseFor == <<"R", "e", "s", "p", "o", "n", "s", "e", " ", "f", "o", "r", " ", "'">>

Using == <<"'", " ", "u", "s", "i", "n", "g", " ">>

SimulatedAIResponse ==
    <<":", " ", "[", "S", "i", "m", "u", "l", "a", "t", "e", "d", " ", "A", "I", " ",
      "R", "e", "s", "p", "o", "n", "s", "e", "]">>

ErrorNoSuitableModel ==
    <<"E", "r", "r", "o", "r", ":", " ", "N", "o", " ", "s", "u", "i", "t", "a", "b", "l", "e",
      " ", "m", "o", "d", "e", "l", " ", "f", "o", "u", "n", "d", ".">>

AIRequest(capability, prompt) == [capability |-> capability, prompt |-> prompt]

AIResponse(content) == [content |-> content]

Prompts == {<<"H", "i">>, <<"f", "i", "x", " ", "i", "t">>}

\* The body of process_request once the model lookup has returned model_config.
\* Variant: the format string leaves the model name out.
respond_without_model_name(request, model_config) ==
    IF model_config # None
    THEN AIResponse(ResponseFor \o request.prompt \o Using \o SimulatedAIResponse)
    ELSE AIResponse(ErrorNoSuitableModel)

\* Variant: the response always names gpt-3.5-turbo.
respond_naming_default_model(request, model_config) ==
    IF model_config # None
    THEN AIResponse(ResponseFor \o request.prompt \o Using \o gpt_3_5_turbo
                    \o SimulatedAIResponse)
    ELSE AIResponse(ErrorNoSuitableModel)

\* The two branches as written.
respond(request, model_config) ==
    IF model_config # None
    THEN AIResponse(ResponseFor \o request.prompt \o Using \o model_config[1].name
                    \o SimulatedAIResponse)
    ELSE AIResponse(ErrorNoSuitableModel)

----------------------------------------------------------------------------
(* ai_commands.rs: strings *)

\* char::is_whitespace, over the characters of the model's alphabet.
Whitespace == {" ", "\t"}

UpperCase ==
    <<"A", "B", "C", "D", "E", "F", "G", "H", "I", "J", "K", "L", "M", "N", "O", "P", "Q", "R", "S", "T", "U", "V", "W", "X", "Y", "Z">>

LowerCase ==
    <<"a", "b", "c", "d", "e", "f", "g", "h", "i", "j", "k", "l", "m", "n", "o", "p", "q", "r", "s", "t", "u", "v", "w", "x", "y", "z">>

\* char::to_lowercase
to_lowercase_char(c) ==
    IF \E i \in DOMAIN UpperCase : UpperCase[i] = c
    THEN LowerCase[CHOOSE i \in DOMAIN UpperCase : UpperCase[i] = c]
    ELSE c

\* Variant: only the initial character is lower-cased.
to_lowercase_initial(s) ==
    [i \in DOMAIN s |-> IF i = 1 THEN to_lowercase_char(s[i]) ELSE s[i]]

\* str::to_lowercase
\* Variant: the keyword is compared as typed.
to_lowercase_unchanged(s) == s

to_lowercase(s) == [i \in DOMAIN s |-> to_lowercase_char(s[i])]

\* str::trim: drop the leading and the trailing whitespace.
RECURSIVE trim_start(_)
trim_start(s) ==
    IF s # <<>> /\ Head(s) \in Whitespace THEN trim_start(Tail(s)) ELSE s

RECURSIVE trim_end(_)
trim_end(s) ==
    IF s # <<>> /\ s[Len(s)] \in Whitespace THEN trim_end(SubSeq(s, 1, Len(s) - 1)) ELSE s

trim(s) == trim_end(trim_start(s))

\* str::split_whitespace, collected: the maximal runs of non-whitespace, in
\* order. word is the run being read, parts the runs already closed.
RECURSIVE split_scan(_, _, _)
split_scan(s, word, parts) ==
    IF s = <<>> THEN (IF word = <<>> THEN parts ELSE Append(parts, word))
    ELSE IF Head(s) \in Whitespace
         THEN split_scan(Tail(s), <<>>, IF word = <<>> THEN parts ELSE Append(parts, word))
         ELSE split_scan(Tail(s), Append(word, Head(s)), parts)

split_whitespace(s) == split_scan(s, <<>>, <<>>)

----------------------------------------------------------------------------
(* ai_commands.rs: AICommands *)

CommandType == {"Generate", "Explain", "Debug", "Help", "Unknown"}

slash_generate == <<"/", "g", "e", "n", "e", "r", "a", "t", "e">>

slash_explain == <<"/", "e", "x", "p", "l", "a", "i", "n">>

slash_debug == <<"/", "d", "e", "b", "u", "g">>

slash_help == <<"/", "h", "e", "l", "p">>

kw_generate == <<"g", "e", "n", "e", "r", "a", "t", "e">>

kw_create == <<"c", "r", "e", "a", "t", "e">>

kw_explain == <<"e", "x", "p", "l", "a", "i", "n">>

kw_what == <<"w", "h", "a", "t">>

kw_debug == <<"d", "e", "b", "u", "g">>

kw_fix == <<"f", "i", "x">>

\* AICommands::new
command_map ==
    [k \in {slash_generate, slash_explain, slash_debug, slash_help} |->
        CASE k = slash_generate -> "Generate"
          [] k = slash_explain -> "Explain"
          [] k = slash_debug -> "Debug"
          [] k = slash_help -> "Help"]

ParsedCommand(command_type, arguments, full_input, capability) ==
    [command_type |-> command_type, arguments |-> arguments,
     full_input |-> full_input, capability |-> capability]

\* parse_input, no token: the early return.
\* Variant: full_input carries the trimmed text.
empty_command_trimmed(text) ==
    ParsedCommand("Unknown", <<>>, trim(text), Some("Chat"))

empty_command(text) ==
    ParsedCommand("Unknown", <<>>, text, Some("Chat"))

\* parse_input, the keyword is a key of command_map.
\* Variant: the match has no arm for Explain.
prefix_command_without_explain(cmd_type, arguments, text) ==
    LET capability ==
            CASE cmd_type = "Generate" -> Some("CodeGeneration")
              [] cmd_type = "Debug" -> Some("Debugging")
              [] OTHER -> None
    IN  ParsedCommand(cmd_type, arguments, text, capability)

prefix_command(cmd_type, arguments, text) ==
    LET capability ==
            CASE cmd_type = "Generate" -> Some("CodeGeneration")
              [] cmd_type = "Explain" -> Some("Chat")
              [] cmd_type = "Debug" -> Some("Debugging")
              [] OTHER -> None
    IN  ParsedCommand(cmd_type, arguments, text, capability)

\* parse_input, the natural-language verbs: Some(command) on a match.
\* Variant: only the first verb of each pair is recognised.
natural_language_command_first_verbs(command_keyword, arguments, text) ==
    IF command_keyword = kw_generate
    THEN Some(ParsedCommand("Generate", arguments, text, Some("CodeGeneration")))
    ELSE IF command_keyword = kw_explain
    THEN Some(ParsedCommand("Explain", arguments, text, Some("Chat")))
    ELSE IF command_keyword = kw_debug
    THEN Some(ParsedCommand("Debug", arguments, text, Some("Debugging")))
    ELSE None

natural_language_command(command_keyword, arguments, text) ==
    IF command_keyword = kw_generate \/ command_keyword = kw_create
    THEN Some(ParsedCommand("Generate", arguments, text, Some("CodeGeneration")))
    ELSE IF command_keyword = kw_explain \/ command_keyword = kw_what
    THEN Some(ParsedCommand("Explain", arguments, text, Some("Chat")))
    ELSE IF command_keyword = kw_debug \/ command_keyword = kw_fix
    THEN Some(ParsedCommand("Debug", arguments, text, Some("Debugging")))
    ELSE None

\* parse_input, nothing matched: a general chat message.
\* Variant: the arguments are sliced after the first token, as in the other branches.
chat_command_remaining_tokens(parts, text) ==
    ParsedCommand("Unknown", Tail(parts), text, Some("Chat"))

chat_command(parts, text) ==
    ParsedCommand("Unknown", parts, text, Some("Chat"))

\* AICommands::parse_input
parse_input(text) ==
    LET parts == split_whitespace(trim(text))
    IN  IF parts = <<>> THEN empty_command(text)
        ELSE LET command_keyword == to_lowercase(parts[1])
                 arguments == SubSeq(parts, 2, Len(parts))
             IN  IF command_keyword \in DOMAIN command_map
                 THEN prefix_command(command_map[command_keyword], arguments, text)
                 ELSE LET nl == natural_language_command(command_keyword, arguments, text)
                      IN  IF nl # None THEN nl[1] ELSE chat_command(parts, text)

----------------------------------------------------------------------------
(* The texts handed to parse_input: optional padding, a first token, up to  *)
(* MaxArgs further tokens, each after a separator.                          *)

MaxArgs == 2

FirstTokens ==
    {<<"/", "g", "e", "n", "e", "r", "a", "t", "e">>,
     <<"/", "G", "E", "N", "E", "R", "A", "T", "E">>,
     <<"/", "e", "x", "p", "l", "a", "i", "n">>,
     <<"/", "E", "x", "p", "l", "a", "i", "n">>,
     <<"/", "d", "e", "b", "u", "g">>,
     <<"/", "D", "e", "b", "u", "g">>,
     <<"/", "h", "e", "l", "p">>,
     <<"/", "h", "e", "l", "p", "m", "e">>,
     <<"g", "e", "n", "e", "r", "a", "t", "e">>,
     <<"c", "r", "e", "a", "t", "e">>,
     <<"C", "r", "e", "a", "t", "e">>,
     <<"e", "x", "p", "l", "a", "i", "n">>,
     <<"w", "h", "a", "t">>,
     <<"W", "H", "A", "T">>,
     <<"d", "e", "b", "u", "g">>,
     <<"f", "i", "x">>,
     <<"F", "i", "x">>,
     <<"/", "f", "i", "x">>,
     <<"f", "i", "x", "x">>,
     <<"H", "e", "l", "l", "o">>}

ArgTokens == {<<"x">>, <<"Y">>, kw_fix}

Pads == {<<>>, <<" ">>, <<"\t", " ">>}

Separators == {<<" ">>, <<" ", "\t">>}

RECURSIVE ArgSuffixes(_)
ArgSuffixes(k) ==
    IF k = 0 THEN {<<>>}
    ELSE {sep \o a \o rest : sep \in Separators, a \in ArgTokens, rest \in ArgSuffixes(k - 1)}

Inputs ==
    {lead \o trail : lead \in Pads, trail \in Pads}
    \cup UNION {{lead \o first \o suffix \o trail :
                    lead \in Pads, first \in FirstTokens, suffix \in ArgSuffixes(k),
                    trail \in Pads} : k \in 0..MaxArgs}

----------------------------------------------------------------------------
(* ai_commands.rs: get_help *)

AvailableCommands == <<"A", "v", "a", "i", "l", "a", "b", "l", "e", " ", "c", "o", "m", "m", "a", "n", "d", "s", ":", "\n">>

NaturalLanguageHint ==
    <<"\n", "Y", "o", "u", " ", "c", "a", "n", " ", "a", "l", "s", "o", " ", "t", "r", "y", " ", "p", "h", "r", "a", "s", "i", "n", "g", " ", "y", "o", "u", "r", " ", "r", "e", "q", "u", "e", "s", "t", "s", " ", "i", "n", " ", "n", "a", "t", "u", "r", "a", "l", " ", "l", "a", "n", "g", "u", "a", "g", "e", ",", " ", "e", ".", "g", ".", ",", " ", "'", "g", "e", "n", "e", "r", "a", "t", "e", " ", "a", " ", "p", "y", "t", "h", "o", "n", " ", "f", "u", "n", "c", "t", "i", "o", "n", " ", "t", "o", " ", "s", "o", "r", "t", " ", "a", " ", "l", "i", "s", "t", "'", ".">>

\* {:?} of a CommandType: the name of the variant.
DebugFormat(cmd_type) ==
    CASE cmd_type = "Generate" -> <<"G", "e", "n", "e", "r", "a", "t", "e">>
      [] cmd_type = "Explain" -> <<"E", "x", "p", "l", "a", "i", "n">>
      [] cmd_type = "Debug" -> <<"D", "e", "b", "u", "g">>
      [] cmd_type = "Help" -> <<"H", "e", "l", "p">>
      [] cmd_type = "Unknown" -> <<"U", "n", "k", "n", "o", "w", "n">>

\* The loop of get_help over the entries of command_map, in the order given.
RECURSIVE help_lines(_)
help_lines(order) ==
    IF order = <<>> THEN <<>>
    ELSE <<" ", " ">> \o Head(order) \o <<" ", "-", " ">>
         \o DebugFormat(command_map[Head(order)]) \o <<"\n">> \o help_lines(Tail(order))

\* AICommands::get_help
get_help(order) == AvailableCommands \o help_lines(order) \o NaturalLanguageHint

----------------------------------------------------------------------------
(* ai_chat.rs: AIChatPanel *)

ChatMessage(sender, content, is_code_snippet) ==
    [sender |-> sender, content |-> content, is_code_snippet |-> is_code_snippet]

\* AIChatPanel::add_message (render_chat only prints)
add_message(hist, sender, content, is_code_snippet) ==
    Append(hist, ChatMessage(sender, content, is_code_snippet))

\* Option::unwrap_or
unwrap_or(option, default) == IF option = None THEN default ELSE option[1]

\* The iteration orders of command_map and of the registry held by the
\* panel's handler: chosen when the maps are built, the same on every later
\* pass as long as the maps are not modified.
HashOrders(registry) ==
    [commands : KeyOrders(command_map), models : KeyOrders(registry)]

\* No panel built.
NoOrder == [commands |-> <<>>, models |-> <<>>]

\* The body of send_message: the history after the call and the request
\* handed to process_request, if any.
\* Variant: the Help branch does not return.
send_message_result_without_return(hist, registry, order, text) ==
    LET with_user == add_message(hist, "User", text, FALSE)
        parsed_command == parse_input(text)
        capability_to_use == unwrap_or(parsed_command.capability, "Chat")
        with_help == IF parsed_command.command_type = "Help"
                     THEN add_message(with_user, "System", get_help(order.commands), FALSE)
                     ELSE with_user
        request == AIRequest(capability_to_use, parsed_command.full_input)
        ai_response == respond(request, find(values(registry, order.models), request.capability))
    IN  [history |-> add_message(with_help, "AI", ai_response.content, FALSE),
         forwarded |-> Some(request)]

\* Variant: every request is sent with the Chat capability.
send_message_result_always_chat(hist, registry, order, text) ==
    LET with_user == add_message(hist, "User", text, FALSE)
        parsed_command == parse_input(text)
    IN  IF parsed_command.command_type = "Help"
        THEN [history |-> add_message(with_user, "System", get_help(order.commands), FALSE),
              forwarded |-> None]
        ELSE LET request == AIRequest("Chat", parsed_command.full_input)
                 ai_response ==
                     respond(request, find(values(registry, order.models), request.capability))
             IN  [history |-> add_message(with_user, "AI", ai_response.content, FALSE),
                  forwarded |-> Some(request)]

\* Variant: an error response is not added to the history.
send_message_result_dropping_errors(hist, registry, order, text) ==
    LET with_user == add_message(hist, "User", text, FALSE)
        parsed_command == parse_input(text)
        capability_to_use == unwrap_or(parsed_command.capability, "Chat")
    IN  IF parsed_command.command_type = "Help"
        THEN [history |-> add_message(with_user, "System", get_help(order.commands), FALSE),
              forwarded |-> None]
        ELSE LET request == AIRequest(capability_to_use, parsed_command.full_input)
                 ai_response ==
                     respond(request, find(values(registry, order.models), request.capability))
             IN  [history |-> IF ai_response.content = ErrorNoSuitableModel
                              THEN with_user
                              ELSE add_message(with_user, "AI", ai_response.content, FALSE),
                  forwarded |-> Some(request)]

send_message_result(hist, registry, order, text) ==
    LET with_user == add_message(hist, "User", text, FALSE)
        parsed_command == parse_input(text)
        capability_to_use == unwrap_or(parsed_command.capability, "Chat")
    IN  IF parsed_command.command_type = "Help"
        THEN [history |-> add_message(with_user, "System", get_help(order.commands), FALSE),
              forwarded |-> None]
        ELSE LET request == AIRequest(capability_to_use, parsed_command.full_input)
                 ai_response ==
                     respond(request, find(values(registry, order.models), request.capability))
             IN  [history |-> add_message(with_user, "AI", ai_response.content, FALSE),
                  forwarded |-> Some(request)]

\* Vec::contains
contains(vec, x) == \E i \in 1..Len(vec) : vec[i] = x

\* The texts the user sends and the model lists the panel is given.
MaxSends == 2

ChatTexts ==
    {<<"H", "i">>,
     <<" ", "/", "H", "e", "l", "p", " ", "x">>,
     <<"/", "g", "e", "n", "e", "r", "a", "t", "e", " ", "x">>,
     <<"f", "i", "x", " ", "i", "t">>}

gpt_4 == <<"g", "p", "t", "-", "4">>

ModelLists == {<<gpt_3_5_turbo, claude_2>>, <<gpt_4>>}

----------------------------------------------------------------------------
(* Initial state: AIServiceHandler::new(AIService::new()), nothing parsed yet *)

Init ==
    /\ models = AIService_new
    /\ default_provider = "OpenAI"
    /\ call = [op |-> "new"]
    /\ input = <<>>
    /\ parsed = None
    /\ history = <<>>
    /\ available_models = <<gpt_3_5_turbo, claude_2>>
    /\ selected_model = None
    /\ hash_order = NoOrder
    /\ sent = <<>>

----------------------------------------------------------------------------
(* AIService operations *)

\* Variant: an existing entry is kept (entry().or_insert).
register_model_keep_existing(config) ==
    /\ models' = IF config.name \in DOMAIN models THEN models
                 ELSE insert(models, config.name, config)
    /\ call' = [op |-> "register_model", config |-> config]
    /\ UNCHANGED <<default_provider, input, parsed, chatVars>>

\* Variant: the registry is replaced by the one entry.
register_model_alone(config) ==
    /\ models' = [k \in {config.name} |-> config]
    /\ call' = [op |-> "register_model", config |-> config]
    /\ UNCHANGED <<default_provider, input, parsed, chatVars>>

register_model(config) ==
    /\ models' = insert(models, config.name, config)
    /\ call' = [op |-> "register_model", config |-> config]
    /\ UNCHANGED <<default_provider, input, parsed, chatVars>>

\* Variant: the contains_key guard is missing.
configure_model_upsert(model_name, new_config) ==
    /\ models' = insert(models, model_name, new_config)
    /\ call' = [op |-> "configure_model", model_name |-> model_name, new_config |-> new_config]
    /\ UNCHANGED <<default_provider, input, parsed, chatVars>>

\* Variant: the entry is stored under new_config.name instead of model_name.
configure_model_by_config_name(model_name, new_config) ==
    /\ models' = IF model_name \in DOMAIN models
                 THEN insert(models, new_config.name, new_config)
                 ELSE models
    /\ call' = [op |-> "configure_model", model_name |-> model_name, new_config |-> new_config]
    /\ UNCHANGED <<default_provider, input, parsed, chatVars>>

configure_model(model_name, new_config) ==
    /\ models' = IF model_name \in DOMAIN models
                 THEN insert(models, model_name, new_config)
                 ELSE models
    /\ call' = [op |-> "configure_model", model_name |-> model_name, new_config |-> new_config]
    /\ UNCHANGED <<default_provider, input, parsed, chatVars>>

select_model_for_capability(capability) ==
    /\ \E result \in find_results(models, capability) :
          call' = [op |-> "select_model_for_capability", capability |-> capability,
                   result |-> result]
    /\ UNCHANGED <<models, default_provider, input, parsed, chatVars>>

\* Variant: the stored provider is replaced only while it is still OpenAI.
set_default_provider_once(provider) ==
    /\ default_provider' = IF default_provider = "OpenAI" THEN provider ELSE default_provider
    /\ call' = [op |-> "set_default_provider", provider |-> provider]
    /\ UNCHANGED <<models, input, parsed, chatVars>>

set_default_provider(provider) ==
    /\ default_provider' = provider
    /\ call' = [op |-> "set_default_provider", provider |-> provider]
    /\ UNCHANGED <<models, input, parsed, chatVars>>

get_default_provider ==
    /\ call' = [op |-> "get_default_provider", result |-> default_provider]
    /\ UNCHANGED <<models, default_provider, input, parsed, chatVars>>

\* Variant: the provider of the model that answered becomes the default provider.
process_request_adopting_provider(request) ==
    /\ \E model_config \in find_results(models, request.capability) :
          /\ call' = [op |-> "process_request", request |-> request,
                      response |-> respond(request, model_config)]
          /\ default_provider' = IF model_config = None THEN default_provider
                                 ELSE model_config[1].provider
    /\ UNCHANGED <<models, input, parsed, chatVars>>

\* AIServiceHandler::process_request. gather_context builds a string that is
\* never read and touches no state, so it has no counterpart here.
process_request(request) ==
    /\ \E model_config \in find_results(models, request.capability) :
          call' = [op |-> "process_request", request |-> request,
                   response |-> respond(request, model_config)]
    /\ UNCHANGED <<models, default_provider, input, parsed, chatVars>>

Next ==
    \/ \E config \in ConfigArgs : register_model(config)
    \/ \E model_name \in ModelNames, new_config \in ConfigArgs : configure_model(model_name, new_config)
    \/ \E capability \in AICapability : select_model_for_capability(capability)
    \/ \E provider \in AIProvider : set_default_provider(provider)
    \/ get_default_provider
    \/ \E capability \in AICapability, prompt \in Prompts :
          process_request(AIRequest(capability, prompt))

Spec == Init /\ [][Next]_vars

----------------------------------------------------------------------------
(* The command parser on its own: one text, parsed *)

InitParse ==
    /\ models = AIService_new
    /\ default_provider = "OpenAI"
    /\ call = [op |-> "new"]
    /\ input \in Inputs
    /\ parsed = None
    /\ history = <<>>
    /\ available_models = <<gpt_3_5_turbo, claude_2>>
    /\ selected_model = None
    /\ hash_order = NoOrder
    /\ sent = <<>>

parse ==
    /\ parsed' = Some(parse_input(input))
    /\ UNCHANGED <<models, default_provider, call, input, chatVars>>

NextParse == parse

SpecParse == InitParse /\ [][NextParse]_vars

----------------------------------------------------------------------------
(* The models panel: AIModelsPanel::new(AIService::new()); the service is   *)
(* read through get_ai_service. on_models_changed only prints.              *)

add_model_config(config) ==
    /\ models' = insert(models, config.name, config)
    /\ call' = [op |-> "add_model_config", config |-> config]
    /\ UNCHANGED <<default_provider, input, parsed, chatVars>>

\* Variant: the entry is taken out of the map.
remove_model_config_deleting(model_name) ==
    /\ models' = [k \in DOMAIN models \ {model_name} |-> models[k]]
    /\ call' = [op |-> "remove_model_config", model_name |-> model_name]
    /\ UNCHANGED <<default_provider, input, parsed, chatVars>>

\* The placeholder config is built and dropped: the configure_model call that
\* would store it is commented out.
remove_model_config(model_name) ==
    /\ call' = [op |-> "remove_model_config", model_name |-> model_name]
    /\ UNCHANGED <<models, default_provider, input, parsed, chatVars>>

\* capabilities.iter().any(discriminant equal): the enum has no fields, so
\* equal discriminants are equal capabilities.
has_capability(config, capability) ==
    \E i \in 1..Len(config.capabilities) : config.capabilities[i] = capability

\* Variant: the capability replaces the list instead of being pushed on it.
assign_capability_to_model_replacing(model_name, capability) ==
    /\ models' = IF model_name \in DOMAIN models
                      /\ ~has_capability(models[model_name], capability)
                 THEN insert(models, model_name,
                             [models[model_name] EXCEPT !.capabilities = <<capability>>])
                 ELSE models
    /\ call' = [op |-> "assign_capability_to_model", model_name |-> model_name,
                capability |-> capability]
    /\ UNCHANGED <<default_provider, input, parsed, chatVars>>

\* The clone of the entry gets the capability pushed and is stored through
\* configure_model, whose contains_key guard holds here.
assign_capability_to_model(model_name, capability) ==
    /\ models' = IF model_name \in DOMAIN models
                      /\ ~has_capability(models[model_name], capability)
                 THEN LET existing_config ==
                              [models[model_name] EXCEPT
                                  !.capabilities = Append(@, capability)]
                      IN  IF model_name \in DOMAIN models
                          THEN insert(models, model_name, existing_config)
                          ELSE models
                 ELSE models
    /\ call' = [op |-> "assign_capability_to_model", model_name |-> model_name,
                capability |-> capability]
    /\ UNCHANGED <<default_provider, input, parsed, chatVars>>

NextPanel ==
    \/ \E config \in ConfigArgs : add_model_config(config)
    \/ \E model_name \in ModelNames : remove_model_config(model_name)
    \/ \E model_name \in ModelNames, capability \in AICapability :
          assign_capability_to_model(model_name, capability)
    \/ \E capability \in AICapability : select_model_for_capability(capability)

SpecPanel == Init /\ [][NextPanel]_vars

----------------------------------------------------------------------------
(* A session: one registry under the operations of the service, reached     *)
(* through get_ai_service_mut, of the models panel and of the router, which *)
(* reads the registry it is given.                                          *)

SessionConfigs ==
    {AIModelConfig(test_model, "Local", <<"Debugging">>),
     AIModelConfig(gpt_3_5_turbo, "Local", <<>>)}

SessionCapabilities == {"Chat", "Debugging"}

NextSession ==
    \/ \E config \in SessionConfigs : register_model(config)
    \/ \E model_name \in ModelNames, new_config \in SessionConfigs :
          configure_model(model_name, new_config)
    \/ \E provider \in ProviderArgs : set_default_provider(provider)
    \/ \E capability \in AICapability : select_model_for_capability(capability)
    \/ \E capability \in AICapability :
          process_request(AIRequest(capability, <<"H", "i">>))
    \/ \E config \in SessionConfigs : add_model_config(config)
    \/ \E model_name \in ModelNames : remove_model_config(model_name)
    \/ \E model_name \in ModelNames, capability \in SessionCapabilities :
          assign_capability_to_model(model_name, capability)

SpecSession == Init /\ [][NextSession]_vars

----------------------------------------------------------------------------
(* The chat panel: AIChatPanel::new over AIServiceHandler::new(AIService::new()) *)

InitChat ==
    /\ models = AIService_new
    /\ default_provider = "OpenAI"
    /\ call = [op |-> "new"]
    /\ input = <<>>
    /\ parsed = None
    /\ history = <<>>
    /\ available_models = <<gpt_3_5_turbo, claude_2>>
    /\ selected_model = None
    /\ hash_order \in HashOrders(AIService_new)
    /\ sent = <<>>

\* Variant: the request is routed to the selected model alone, when there is one.
send_message_to_selected(text) ==
    /\ Len(sent) < MaxSends
    /\ LET order == IF selected_model = None THEN hash_order
                    ELSE [hash_order EXCEPT
                             !.models = SelectSeq(@, LAMBDA k : k = selected_model[1])]
           result == send_message_result(history, models, order, text)
       IN  /\ history' = result.history
           /\ call' = [op |-> "send_message", text |-> text, forwarded |-> result.forwarded]
    /\ sent' = Append(sent, text)
    /\ UNCHANGED <<models, default_provider, input, parsed, available_models,
                   selected_model, hash_order>>

send_message(text) ==
    /\ Len(sent) < MaxSends
    /\ LET result == send_message_result(history, models, hash_order, text)
       IN  /\ history' = result.history
           /\ call' = [op |-> "send_message", text |-> text, forwarded |-> result.forwarded]
    /\ sent' = Append(sent, text)
    /\ UNCHANGED <<models, default_provider, input, parsed, available_models,
                   selected_model, hash_order>>

\* Variant: the name is selected without looking at available_models.
select_model_unchecked(model_name) ==
    /\ selected_model' = Some(model_name)
    /\ call' = [op |-> "select_model", model_name |-> model_name]
    /\ UNCHANGED <<models, default_provider, input, parsed, history, available_models,
                   hash_order, sent>>

select_model(model_name) ==
    /\ selected_model' = IF contains(available_models, model_name)
                         THEN Some(model_name)
                         ELSE selected_model
    /\ call' = [op |-> "select_model", model_name |-> model_name]
    /\ UNCHANGED <<models, default_provider, input, parsed, history, available_models,
                   hash_order, sent>>

update_available_models(new_models) ==
    /\ available_models' = new_models
    /\ selected_model' = IF selected_model # None /\ ~contains(new_models, selected_model[1])
                         THEN None
                         ELSE selected_model
    /\ call' = [op |-> "update_available_models", models |-> new_models]
    /\ UNCHANGED <<models, default_provider, input, parsed, history, hash_order, sent>>

NextChat ==
    \/ \E text \in ChatTexts : send_message(text)
    \/ \E model_name \in ModelNames \cup {gpt_4} : select_model(model_name)
    \/ \E new_models \in ModelLists : update_available_models(new_models)

SpecChat == InitChat /\ [][NextChat]_vars

----------------------------------------------------------------------------
(* Vocabulary of the properties, defined apart from the operators above *)

\* s contains sub as a contiguous substring (str::contains).
Contains(s, sub) ==
    \E i \in 0..(Len(s) - Len(sub)) : SubSeq(s, i + 1, i + Len(sub)) = sub

CapabilitySet(config) == {config.capabilities[i] : i \in 1..Len(config.capabilities)}

\* The keys of the registered models that support capability.
Supporters(capability) ==
    {k \in DOMAIN models : capability \in CapabilitySet(models[k])}

NoSuitableModelFound ==
    <<"N", "o", " ", "s", "u", "i", "t", "a", "b", "l", "e", " ", "m", "o", "d", "e", "l", " ",
      "f", "o", "u", "n", "d">>

----------------------------------------------------------------------------
(* Model registry and request router *)

\* C1: whenever at least one registered model supports capability C,
\* select_model_for_capability(C) returns an entry of the registry whose
\* capability list contains C (hence never a model with an empty list), and
\* the one supporting model when there is exactly one.
C1_SelectReturnsSupportingEntry ==
    (call.op = "select_model_for_capability" /\ Supporters(call.capability) # {}) =>
        /\ call.result # None
        /\ \E k \in DOMAIN models : models[k] = call.result[1]
        /\ call.capability \in CapabilitySet(call.result[1])
        /\ call.result[1].capabilities # <<>>
        /\ \A k \in DOMAIN models :
              Supporters(call.capability) = {k} => call.result[1] = models[k]

\* C1 witness: a lookup for Debugging answered while test-model is the only
\* supporter and another registered model has an empty capability list.
C1_Witness ==
    /\ call.op = "select_model_for_capability"
    /\ call.capability = "Debugging"
    /\ Supporters("Debugging") = {test_model}
    /\ call.result # None
    /\ \E k \in DOMAIN models : models[k].capabilities = <<>>

\* C2: whenever no registered model supports capability C,
\* select_model_for_capability(C) returns none and process_request for C
\* returns a response whose content contains "No suitable model found".
C2_NoSupporterGivesNoneAndErrorResponse ==
    /\ (call.op = "select_model_for_capability" /\ Supporters(call.capability) = {}) =>
          call.result = None
    /\ (call.op = "process_request" /\ Supporters(call.request.capability) = {}) =>
          Contains(call.response.content, NoSuitableModelFound)

\* C2 witness: a Chat request answered after every registered model lost Chat.
C2_Witness ==
    /\ call.op = "process_request"
    /\ call.request.capability = "Chat"
    /\ Supporters("Chat") = {}
    /\ DOMAIN models = ModelNames

\* C3: when some registered model supports the requested capability, the
\* response of process_request contains the request's prompt verbatim and the
\* name of a registered model that supports that capability.
C3_ResponseEmbedsPromptAndModelName ==
    (call.op = "process_request" /\ Supporters(call.request.capability) # {}) =>
        /\ Contains(call.response.content, call.request.prompt)
        /\ \E k \in Supporters(call.request.capability) :
              Contains(call.response.content, models[k].name)

\* C3 witness: a request answered while several registered models qualify.
C3_Witness ==
    /\ call.op = "process_request"
    /\ Cardinality(Supporters(call.request.capability)) >= 2
    /\ Contains(call.response.content, call.request.prompt)

\* C4: register_model(c2) right after register_model(c1) with the same name
\* leaves the entry for that name exactly equal to c2, and registering the
\* same config twice leaves the registry as the first registration left it.
C4_RegisterReplaces ==
    [][(/\ call.op = "register_model"
        /\ call'.op = "register_model"
        /\ call'.config.name = call.config.name) =>
            /\ call'.config.name \in DOMAIN models'
            /\ models'[call'.config.name] = call'.config
            /\ (call'.config = call.config => models' = models)]_vars

\* C4 witness: gpt-3.5-turbo, registered since construction, re-registered
\* with another provider and another capability list.
C4_Witness ==
    /\ call.op = "register_model"
    /\ call.config.name = gpt_3_5_turbo
    /\ call.config.provider = "Local"
    /\ call.config.capabilities = <<"Debugging">>
    /\ models[gpt_3_5_turbo] = call.config

\* C5: configure_model(name, cfg) with name not registered leaves the
\* registry unchanged: same names, same entries, no entry for name, same
\* default provider.
C5_ConfigureAbsentIsNoOp ==
    [][(call'.op = "configure_model" /\ call'.model_name \notin DOMAIN models) =>
            /\ DOMAIN models' = DOMAIN models
            /\ Cardinality(DOMAIN models') = Cardinality(DOMAIN models)
            /\ \A k \in DOMAIN models : models'[k] = models[k]
            /\ call'.model_name \notin DOMAIN models'
            /\ default_provider' = default_provider]_vars

\* C5 witness: configure_model was called for test-model while it is absent.
C5_Witness ==
    /\ call.op = "configure_model"
    /\ call.model_name = test_model
    /\ test_model \notin DOMAIN models
    /\ call.new_config.capabilities # <<>>

\* C6: configure_model(name, cfg) with name registered makes the entry under
\* name equal to cfg, leaves every other entry and the model count unchanged.
C6_ConfigurePresentOverwrites ==
    [][(call'.op = "configure_model" /\ call'.model_name \in DOMAIN models) =>
            /\ DOMAIN models' = DOMAIN models
            /\ Cardinality(DOMAIN models') = Cardinality(DOMAIN models)
            /\ models'[call'.model_name] = call'.new_config
            /\ \A k \in DOMAIN models \ {call'.model_name} : models'[k] = models[k]]_vars

\* C6 witness: gpt-3.5-turbo configured down to Debugging only (Chat is gone).
C6_Witness ==
    /\ call.op = "configure_model"
    /\ call.model_name = gpt_3_5_turbo
    /\ models[gpt_3_5_turbo] = call.new_config
    /\ CapabilitySet(models[gpt_3_5_turbo]) = {"Debugging"}

\* C13: after any register_model and configure_model calls, no two entries
\* hold configs with the same name and every entry's key is the name of the
\* config stored under it.
C13_NamesUniqueAndKeyed ==
    /\ \A k \in DOMAIN models : models[k].name = k
    /\ \A k1, k2 \in DOMAIN models : models[k1].name = models[k2].name => k1 = k2

\* C14: the default provider is OpenAI at construction; set_default_provider
\* stores its argument and leaves the model map unchanged; every other call,
\* register_model and configure_model included, leaves the default provider
\* unchanged; get_default_provider returns the stored provider, hence the
\* argument of the most recent set_default_provider call.
C14_DefaultProviderGetSet ==
    /\ default_provider = "OpenAI"
    /\ [][(call'.op = "set_default_provider" =>
                (default_provider' = call'.provider /\ models' = models))
           /\ (call'.op # "set_default_provider" => default_provider' = default_provider)
           /\ (call'.op = "get_default_provider" => call'.result = default_provider)]_vars

\* C14 witness: get_default_provider answered Local after a model was registered.
C14_Witness ==
    /\ call.op = "get_default_provider"
    /\ call.result = "Local"
    /\ default_provider = "Local"
    /\ test_model \in DOMAIN models

\* The registry with the provider of every model replaced as providers says.
Reprovided(map, providers) ==
    [k \in DOMAIN map |-> [map[k] EXCEPT !.provider = providers[k]]]

\* What a lookup can answer, providers left aside: none, or a model name.
RoutedNames(map, capability) ==
    {IF r = None THEN None ELSE Some(r[1].name) : r \in find_results(map, capability)}

\* C15: a registry with the same names and capability lists but other
\* providers, under any default provider, routes alike: for every capability
\* the lookup finds a model in one iff in the other, with the same set of
\* names it may return; the answer of select_model_for_capability is one of them.
\* Every registry is compared with the registries that give all its models
\* one provider; two registries that differ only in providers share these,
\* so they route like them and like each other.
C15_ProvidersDoNotAffectRouting ==
    \A provider \in AIProvider :
        LET same_provider == Reprovided(models, [k \in DOMAIN models |-> provider])
        IN  /\ \A capability \in AICapability :
                  RoutedNames(same_provider, capability) = RoutedNames(models, capability)
            /\ call.op = "select_model_for_capability" =>
                  (IF call.result = None THEN None ELSE Some(call.result[1].name))
                      \in RoutedNames(same_provider, call.capability)

\* C15 witness: a lookup answered with a Local model under the default
\* provider Anthropic, while another supporter has another provider.
C15_Witness ==
    /\ call.op = "select_model_for_capability"
    /\ call.result # None
    /\ call.result[1].provider = "Local"
    /\ default_provider = "Anthropic"
    /\ \E k \in Supporters(call.capability) : models[k].provider = "OpenAI"

\* C16: process_request leaves the model map and the default provider as
\* they were, whether a model is found or not, and a request repeated right
\* away has the same found / not-found outcome.
C16_ProcessRequestLeavesRegistry ==
    [][call'.op = "process_request" =>
            /\ models' = models
            /\ default_provider' = default_provider
            /\ (call.op = "process_request" /\ call.request = call'.request) =>
                  ((call.response.content = ErrorNoSuitableModel)
                      <=> (call'.response.content = ErrorNoSuitableModel))]_vars

\* C16 witness: a Debugging request answered by a Local model while the
\* default provider is Anthropic.
C16_Witness ==
    /\ call.op = "process_request"
    /\ call.request.capability = "Debugging"
    /\ call.response.content # ErrorNoSuitableModel
    /\ default_provider = "Anthropic"
    /\ \A k \in Supporters("Debugging") : models[k].provider = "Local"

C18_RemoveEmptiesCapabilities ==
    [][(call'.op = "remove_model_config" /\ call'.model_name \in DOMAIN models) =>
            /\ call'.model_name \in DOMAIN models'
            /\ models'[call'.model_name].capabilities = <<>>
            /\ \A capability \in AICapability :
                  \A r \in find_results(models', capability) :
                      r = None \/ r[1].name # call'.model_name]_vars

\* C24: register_model(c) changes only the entry keyed by c.name: the entries
\* under the other names stay as they were, and the number of models grows by
\* one when c.name was not registered and stays the same when it was.
C24_RegisterTouchesOneEntry ==
    [][call'.op = "register_model" =>
          LET c == call'.config
          IN  /\ \A k \in DOMAIN models \ {c.name} :
                    k \in DOMAIN models' /\ models'[k] = models[k]
              /\ DOMAIN models' \subseteq DOMAIN models \cup {c.name}
              /\ c.name \notin DOMAIN models =>
                    Cardinality(DOMAIN models') = Cardinality(DOMAIN models) + 1
              /\ c.name \in DOMAIN models =>
                    Cardinality(DOMAIN models') = Cardinality(DOMAIN models)
              /\ default_provider' = default_provider]_vars

\* test-model has been registered next to the two default models, both of
\* which are as AIService::new made them.
C24_Witness ==
    /\ call.op = "register_model"
    /\ call.config.name = test_model
    /\ DOMAIN models = {gpt_3_5_turbo, claude_2, test_model}
    /\ models[gpt_3_5_turbo] = AIService_new[gpt_3_5_turbo]
    /\ models[claude_2] = AIService_new[claude_2]

\* C25: the set of registered names never shrinks: whichever of
\* register_model, configure_model, set_default_provider,
\* select_model_for_capability, process_request, add_model_config,
\* remove_model_config and assign_capability_to_model is called, every name
\* the registry has an entry for keeps an entry, so that gpt-3.5-turbo and
\* claude-2 are always registered.
C25_RegisteredNamesNeverShrink ==
    /\ []({gpt_3_5_turbo, claude_2} \subseteq DOMAIN models)
    /\ [][DOMAIN models \subseteq DOMAIN models']_vars

\* test-model is still registered after remove_model_config("test-model"),
\* in a registry whose gpt-3.5-turbo entry has been overwritten and extended.
C25_Witness ==
    /\ call.op = "remove_model_config"
    /\ call.model_name = test_model
    /\ DOMAIN models = {gpt_3_5_turbo, claude_2, test_model}
    /\ models[gpt_3_5_turbo].provider = "Local"
    /\ models[gpt_3_5_turbo].capabilities = <<"Debugging">>

\* C23: assign_capability_to_model(name, C) on a registered model without C
\* appends C to its capability list (one more capability, the earlier ones
\* kept, nothing else of the registry changed); on a model that has C, or on
\* a name that is not registered, the registry stays as it is. A second
\* assignment of the same capability therefore changes nothing.
C23_AssignAddsOneCapability ==
    [][call'.op = "assign_capability_to_model" =>
          LET name == call'.model_name
              C == call'.capability
          IN  /\ (name \in DOMAIN models /\ C \notin CapabilitySet(models[name])) =>
                    /\ DOMAIN models' = DOMAIN models
                    /\ \A k \in DOMAIN models \ {name} : models'[k] = models[k]
                    /\ models'[name].name = models[name].name
                    /\ models'[name].provider = models[name].provider
                    /\ C \in CapabilitySet(models'[name])
                    /\ Len(models'[name].capabilities) = Len(models[name].capabilities) + 1
                    /\ SubSeq(models'[name].capabilities, 1, Len(models[name].capabilities))
                          = models[name].capabilities
              /\ (name \in DOMAIN models /\ C \in CapabilitySet(models[name])) =>
                    models' = models
              /\ name \notin DOMAIN models => models' = models
              /\ (call.op = "assign_capability_to_model" /\ call.model_name = name
                  /\ call.capability = C) => models' = models]_vars

\* gpt-3.5-turbo has been given Debugging on top of its two capabilities.
C23_Witness ==
    /\ call.op = "assign_capability_to_model"
    /\ call.model_name = gpt_3_5_turbo
    /\ call.capability = "Debugging"
    /\ models[gpt_3_5_turbo].capabilities = <<"Chat", "CodeGeneration", "Debugging">>

----------------------------------------------------------------------------
(* Command parser *)

\* The whitespace-separated tokens of s, stated by position: a token starts
\* where a non-whitespace character follows the start of s or a whitespace
\* character, and runs up to the last non-whitespace character before the
\* next whitespace or the end.
WordStarts(s) ==
    {i \in 1..Len(s) : s[i] \notin Whitespace /\ (i = 1 \/ s[i - 1] \in Whitespace)}

WordEnd(s, i) ==
    CHOOSE j \in i..Len(s) :
        /\ \A m \in i..j : s[m] \notin Whitespace
        /\ (j = Len(s) \/ s[j + 1] \in Whitespace)

Words(s) ==
    [n \in 1..Cardinality(WordStarts(s)) |->
        LET i == CHOOSE x \in WordStarts(s) :
                    Cardinality({y \in WordStarts(s) : y < x}) = n - 1
        IN  SubSeq(s, i, WordEnd(s, i))]

\* w, lower-cased, is keyword (keyword is in lower case).
IsKeyword(w, keyword) ==
    /\ Len(w) = Len(keyword)
    /\ \A i \in 1..Len(w) :
          \/ w[i] = keyword[i]
          \/ \E j \in DOMAIN UpperCase : w[i] = UpperCase[j] /\ keyword[i] = LowerCase[j]

PrefixCommands == {slash_generate, slash_explain, slash_debug, slash_help}

Verbs == {kw_generate, kw_create, kw_explain, kw_what, kw_debug, kw_fix}

IsOneOf(w, keywords) == \E keyword \in keywords : IsKeyword(w, keyword)

\* C7: an input whose first token, lower-cased, is /generate, /explain or
\* /debug parses to Generate/CodeGeneration, Explain/Chat or Debug/Debugging,
\* with the tokens after the first as arguments, in order and as spelled.
C7_PrefixCommands ==
    (parsed # None /\ Words(input) # <<>>) =>
        \A row \in {<<slash_generate, "Generate", "CodeGeneration">>,
                    <<slash_explain, "Explain", "Chat">>,
                    <<slash_debug, "Debug", "Debugging">>} :
            IsKeyword(Words(input)[1], row[1]) =>
                /\ parsed[1].command_type = row[2]
                /\ parsed[1].capability = Some(row[3])
                /\ parsed[1].arguments = Tail(Words(input))

\* C7 witness: "/GENERATE ... Y ..." parsed, the upper-case argument kept.
C7_Witness ==
    /\ parsed # None
    /\ Len(Words(input)) = 3
    /\ Words(input)[1] = <<"/", "G", "E", "N", "E", "R", "A", "T", "E">>
    /\ parsed[1].command_type = "Generate"
    /\ parsed[1].arguments = <<<<"Y">>, <<"x">>>>

\* C8: an input whose first token is no prefix command and, lower-cased, is
\* generate/create, explain/what or debug/fix parses to Generate/CodeGeneration,
\* Explain/Chat or Debug/Debugging, with the tokens after the first as arguments.
C8_NaturalLanguageVerbs ==
    (parsed # None /\ Words(input) # <<>> /\ ~IsOneOf(Words(input)[1], PrefixCommands)) =>
        \A row \in {<<{kw_generate, kw_create}, "Generate", "CodeGeneration">>,
                    <<{kw_explain, kw_what}, "Explain", "Chat">>,
                    <<{kw_debug, kw_fix}, "Debug", "Debugging">>} :
            IsOneOf(Words(input)[1], row[1]) =>
                /\ parsed[1].command_type = row[2]
                /\ parsed[1].capability = Some(row[3])
                /\ parsed[1].arguments = Tail(Words(input))

\* C8 witness: "Fix x fix" parsed as Debug with both arguments.
C8_Witness ==
    /\ parsed # None
    /\ Words(input) = <<<<"F", "i", "x">>, <<"x">>, kw_fix>>
    /\ parsed[1].command_type = "Debug"
    /\ parsed[1].arguments = <<<<"x">>, kw_fix>>

\* C9: a non-empty input whose first token, lower-cased, is neither a prefix
\* command nor one of the six verbs parses to Unknown/Chat with every token,
\* the first included, as arguments.
C9_PlainChatKeepsAllTokens ==
    (/\ parsed # None
     /\ input # <<>>
     /\ Words(input) # <<>>
     /\ ~IsOneOf(Words(input)[1], PrefixCommands \cup Verbs)) =>
        /\ parsed[1].command_type = "Unknown"
        /\ parsed[1].capability = Some("Chat")
        /\ parsed[1].arguments = Words(input)

\* C9 witness: "/fix fix" parsed: an unknown slash word followed by a verb.
C9_Witness ==
    /\ parsed # None
    /\ Words(input) = <<<<"/", "f", "i", "x">>, kw_fix>>
    /\ parsed[1].command_type = "Unknown"
    /\ Len(parsed[1].arguments) = 2

\* C10: an empty or whitespace-only input parses to Unknown/Chat with no
\* arguments and full_input equal to the input as given, untrimmed.
C10_BlankInput ==
    (parsed # None /\ \A i \in 1..Len(input) : input[i] \in Whitespace) =>
        /\ parsed[1].command_type = "Unknown"
        /\ parsed[1].capability = Some("Chat")
        /\ parsed[1].arguments = <<>>
        /\ parsed[1].full_input = input

\* C10 witness: a whitespace-only input of several characters was parsed.
C10_Witness ==
    /\ parsed # None
    /\ Len(input) >= 2
    /\ \A i \in 1..Len(input) : input[i] \in Whitespace
    /\ parsed[1].full_input = input

\* C11: the command returned by parse_input has a capability whenever its
\* kind is not Help; a command without a capability is of kind Help.
C11_CapabilityAbsentOnlyForHelp ==
    parsed # None =>
        /\ parsed[1].command_type # "Help" => parsed[1].capability # None
        /\ parsed[1].capability = None => parsed[1].command_type = "Help"
        /\ parsed[1].capability # None => parsed[1].capability[1] \in AICapability

\* C11 witness: "/help x" parsed, a command without a capability.
C11_Witness ==
    /\ parsed # None
    /\ Words(input) = <<slash_help, <<"x">>>>
    /\ parsed[1].command_type = "Help"
    /\ parsed[1].capability = None

\* s with the letters of its first token put in the case that maps from to to
\* (UpperCase to LowerCase or back); everything else of s is left as it is.
RecaseFirstToken(s, from, to) ==
    IF WordStarts(s) = {} THEN s
    ELSE LET i == CHOOSE x \in WordStarts(s) : \A y \in WordStarts(s) : x <= y
             j == WordEnd(s, i)
         IN  [k \in DOMAIN s |->
                 IF k \in i..j /\ \E n \in DOMAIN from : from[n] = s[k]
                 THEN to[CHOOSE n \in DOMAIN from : from[n] = s[k]]
                 ELSE s[k]]

\* The arguments of p = parse_input(s) that come from the tokens after the
\* first token of s.
ArgumentsAfterFirstToken(p, s) ==
    SubSeq(p.arguments, Len(p.arguments) - (Len(Words(s)) - 1) + 1, Len(p.arguments))

\* C19: keyword matching is case-insensitive: the input, the input with its
\* first token in lower case and the input with its first token in upper case
\* parse to the same kind and the same capability, and to the same arguments
\* after the first token, which are the tokens as typed.
C19_KeywordCaseInsensitive ==
    (parsed # None /\ WordStarts(input) # {}) =>
        \A recased \in {RecaseFirstToken(input, UpperCase, LowerCase),
                        RecaseFirstToken(input, LowerCase, UpperCase)} :
            LET other == parse_input(recased)
            IN  /\ other.command_type = parsed[1].command_type
                /\ other.capability = parsed[1].capability
                /\ Len(parsed[1].arguments) >= Len(Words(input)) - 1
                /\ ArgumentsAfterFirstToken(other, recased)
                      = ArgumentsAfterFirstToken(parsed[1], input)
                /\ ArgumentsAfterFirstToken(parsed[1], input) = Tail(Words(input))

\* "Fix Y" is parsed as a Debug command, as "fix Y" is, and keeps the "Y".
C19_Witness ==
    /\ parsed # None
    /\ Words(input) = <<<<"F", "i", "x">>, <<"Y">>>>
    /\ Words(RecaseFirstToken(input, UpperCase, LowerCase)) = <<kw_fix, <<"Y">>>>
    /\ parse_input(RecaseFirstToken(input, UpperCase, LowerCase)).command_type = "Debug"
    /\ parsed[1].command_type = "Debug"
    /\ parsed[1].arguments = <<<<"Y">>>>

----------------------------------------------------------------------------
(* Chat panel *)

\* C12: send_message on a text that parses to Help does not call
\* process_request and appends exactly the User message and one System
\* message carrying the help text, no AI message.
C12_HelpIsNotForwarded ==
    [][(/\ call'.op = "send_message"
        /\ sent' = Append(sent, call'.text)
        /\ parse_input(call'.text).command_type = "Help") =>
            /\ call'.forwarded = None
            /\ Len(history') = Len(history) + 2
            /\ SubSeq(history', 1, Len(history)) = history
            /\ history'[Len(history) + 1] = ChatMessage("User", call'.text, FALSE)
            /\ history'[Len(history) + 2].sender = "System"
            /\ Contains(history'[Len(history) + 2].content, AvailableCommands)
            /\ \A k \in DOMAIN command_map :
                  Contains(history'[Len(history) + 2].content, k)]_vars

\* C12 witness: " /Help x" was sent after an answered message; the history
\* ends with the System message and nothing was forwarded.
C12_Witness ==
    /\ call.op = "send_message"
    /\ call.text = <<" ", "/", "H", "e", "l", "p", " ", "x">>
    /\ call.forwarded = None
    /\ Len(history) = 4
    /\ history[2].sender = "AI"
    /\ history[4].sender = "System"
\* C20: after any sequence of send_message calls on a new panel the history
\* has two entries per call, in call order: the user's entry with the text
\* sent, then an entry from "AI" or "System". A call answered with the "No
\* suitable model found" error is no exception, and whether an entry from
\* "AI" is that error depends only on the capability of its own text, never
\* on an earlier error.
C20_TwoEntriesPerCall ==
    /\ Len(history) = 2 * Len(sent)
    /\ \A i \in 1..Len(sent) :
          /\ 2 * i <= Len(history)
          /\ history[2 * i - 1].sender = "User"
          /\ history[2 * i - 1].content = sent[i]
          /\ history[2 * i].sender \in {"AI", "System"}
          /\ history[2 * i].sender = "AI" =>
                /\ parse_input(sent[i]).capability # None
                /\ Contains(history[2 * i].content, NoSuitableModelFound)
                      <=> Supporters(parse_input(sent[i]).capability[1]) = {}

\* "fix it" found no model for Debugging; the "Hi" sent next is answered.
C20_Witness ==
    /\ sent = <<<<"f", "i", "x", " ", "i", "t">>, <<"H", "i">>>>
    /\ Len(history) = 4
    /\ history[2].sender = "AI"
    /\ Contains(history[2].content, NoSuitableModelFound)
    /\ history[3] = ChatMessage("User", <<"H", "i">>, FALSE)
    /\ history[4].sender = "AI"
    /\ ~Contains(history[4].content, NoSuitableModelFound)
    /\ Contains(history[4].content, <<"H", "i">>)
\* C21: a message that does not parse to Help is forwarded as a request with
\* the capability parse_input gives for the text and the raw text as prompt,
\* and the AI entry added to the history is the router's answer for it: it
\* contains the raw text and the name of a registered model supporting the
\* capability when there is one, and is the error sentinel otherwise.
C21_ForwardsParsedCapabilityAndRawText ==
    (call.op = "send_message" /\ parse_input(call.text).command_type # "Help") =>
        LET capability == parse_input(call.text).capability
            answer == history[Len(history)]
        IN  /\ capability # None
            /\ call.forwarded = Some([capability |-> capability[1], prompt |-> call.text])
            /\ Len(history) >= 2
            /\ history[Len(history) - 1] = ChatMessage("User", call.text, FALSE)
            /\ answer.sender = "AI"
            /\ Supporters(capability[1]) # {} =>
                  /\ Contains(answer.content, call.text)
                  /\ \E k \in Supporters(capability[1]) :
                        Contains(answer.content, models[k].name)
                  /\ ~Contains(answer.content, NoSuitableModelFound)
            /\ Supporters(capability[1]) = {} =>
                  Contains(answer.content, NoSuitableModelFound)

\* "/generate x" is forwarded whole with the CodeGeneration capability and
\* answered by one of the default models.
C21_Witness ==
    /\ call.op = "send_message"
    /\ call.text = <<"/", "g", "e", "n", "e", "r", "a", "t", "e", " ", "x">>
    /\ call.forwarded # None
    /\ call.forwarded[1].capability = "CodeGeneration"
    /\ call.forwarded[1].prompt = call.text
    /\ Contains(history[Len(history)].content, call.text)
    /\ \/ Contains(history[Len(history)].content, gpt_3_5_turbo)
       \/ Contains(history[Len(history)].content, claude_2)
\* The names in a list of model names.
Listed(names) == {names[i] : i \in 1..Len(names)}

\* C22: the selected model is none or one of available_models, always.
\* select_model with a name that is not available leaves the selection as it
\* was (and selects an available name); update_available_models installs the
\* new list and clears the selection exactly when the selected name is not in
\* it, keeping it otherwise.
C22_SelectionIsAvailable ==
    /\ [](selected_model = None \/ selected_model[1] \in Listed(available_models))
    /\ [][(call'.op = "select_model" =>
                /\ available_models' = available_models
                /\ (call'.model_name \notin Listed(available_models)
                        => selected_model' = selected_model)
                /\ (call'.model_name \in Listed(available_models)
                        => selected_model' = Some(call'.model_name)))
           /\ (call'.op = "update_available_models" =>
                /\ available_models' = call'.models
                /\ ((selected_model # None /\ selected_model[1] \notin Listed(call'.models))
                        => selected_model' = None)
                /\ (~(selected_model # None /\ selected_model[1] \notin Listed(call'.models))
                        => selected_model' = selected_model))]_vars

\* With gpt-4 the only available model and selected, selecting claude-2 has
\* been refused.
C22_Witness ==
    /\ call.op = "select_model"
    /\ call.model_name = claude_2
    /\ available_models = <<gpt_4>>
    /\ selected_model = Some(gpt_4)
\* A second panel over the same registry that is sent the same texts and is
\* never told to select a model or to update its list: its history, and the
\* request forwarded for its last message. Its registry may yield the models
\* in any order.
RECURSIVE ReferencePanel(_, _)
ReferencePanel(texts, order) ==
    IF texts = <<>> THEN [history |-> <<>>, forwarded |-> None]
    ELSE send_message_result(
             ReferencePanel(SubSeq(texts, 1, Len(texts) - 1), order).history,
             AIService_new, order, texts[Len(texts)])

ReferenceOrders ==
    {[hash_order EXCEPT !.models = o] : o \in KeyOrders(AIService_new)}

\* Found or not found, read off the content of an entry.
Outcome(content) == ~Contains(content, NoSuitableModelFound)

\* The capability a forwarded request is routed with, if one was forwarded.
RoutedCapability(forwarded) ==
    IF forwarded = None THEN None ELSE Some(forwarded[1].capability)

\* C26: the selection has no influence on routing. Whatever select_model and
\* update_available_models calls a panel has seen, its history agrees with
\* that of a panel that was sent the same texts and saw none of those calls:
\* entry by entry the same sender and, for the answers of the router, the
\* same found/not-found outcome; and the message just sent was routed with
\* the same capability. Two panels with different selection histories agree
\* with that third panel, hence with each other.
C26_SelectionDoesNotAffectRouting ==
    \A order \in ReferenceOrders :
        LET reference == ReferencePanel(sent, order)
        IN  /\ Len(history) = Len(reference.history)
            /\ \A i \in 1..Len(reference.history) :
                  /\ i <= Len(history)
                  /\ history[i].sender = reference.history[i].sender
                  /\ history[i].sender = "AI" =>
                        Outcome(history[i].content) = Outcome(reference.history[i].content)
            /\ call.op = "send_message" =>
                  RoutedCapability(call.forwarded) = RoutedCapability(reference.forwarded)

\* With gpt-4, which the registry does not hold, selected, "Hi" is answered
\* by a registered model.
C26_Witness ==
    /\ call.op = "send_message"
    /\ call.text = <<"H", "i">>
    /\ selected_model = Some(gpt_4)
    /\ gpt_4 \notin DOMAIN models
    /\ call.forwarded # None
    /\ call.forwarded[1].capability = "Chat"
    /\ history[Len(history)].sender = "AI"
    /\ Outcome(history[Len(history)].content)

====
